---- MODULE Spec2Model ----
(***************************************************************************)
(* Pi Zero relay controller (src/src/main.c): settings resolution, GPIO    *)
(* setup, the mosquitto session callbacks and the message-to-pin           *)
(* translation, as a state machine.                                        *)
(*                                                                         *)
(* Text is modelled character by character: a C string is a sequence of    *)
(* one-character strings, so that fgets' chunking, the unconditional       *)
(* removal of the last character, strtok's splitting on ' ' and toupper    *)
(* are computed as the code computes them.                                 *)
(***************************************************************************)
EXTENDS Integers, Sequences, FiniteSets, TLC

VARIABLES
    pc,          \* position of main(): "readSettings", "gpioSetup", "mosquitto_new",
                 \* "connect", "loop", "exit", "crashed"
    source,      \* settings.dat: [exists |-> BOOLEAN, lines |-> sequence of line records]
    g_Topic,     \* static char g_Topic[BUFFSIZE]
    g_Broker,    \* static char g_Broker[BUFFSIZE]
    resolved,    \* the configuration left by each completed run of readSettings
    pinModes,    \* pin index -> "UNSET" | "OUTPUT" (pinMode)
    pins,        \* pin index -> "NONE" | "HIGH" | "LOW": the level last written
    writes,      \* the digitalWrite calls issued by the most recent step
    session,     \* the mosquitto session: "none", "awaitConnack", "awaitSuback",
                 \* "subscribed", "disconnecting"
    mosqCalls,   \* the mosquitto calls issued by the most recent step
    log,         \* the payloads delivered to on_message so far, as received
    event,       \* what the most recent step handled: an event of the loop or the
                 \* result of a library call, with its arguments
    exitStatus   \* the status main() returned: -1 while it has not returned

vars == <<pc, source, g_Topic, g_Broker, resolved, pinModes, pins, writes,
          session, mosqCalls, log, event, exitStatus>>

BUFFSIZE == 50

HIGH == "HIGH"
LOW == "LOW"

NumPins == 16
PinIndexes == 0..(NumPins - 1)

Min(S) == CHOOSE x \in S : \A y \in S : x <= y

(***************************************************************************)
(* Characters and C strings                                                *)
(***************************************************************************)
SP == " "
TAB == "\t"
NL == "\n"

\* toupper(3) on the letters that occur in the model's texts; every other
\* character is returned unchanged.
toupper(c) ==
    CASE c = "t" -> "T" [] c = "o" -> "O" [] c = "p" -> "P" [] c = "i" -> "I"
      [] c = "c" -> "C" [] c = "b" -> "B" [] c = "r" -> "R" [] c = "k" -> "K"
      [] c = "e" -> "E" [] c = "a" -> "A" [] c = "x" -> "X"
      [] OTHER -> c

STR_TOPIC == <<"T", "O", "P", "I", "C">>
STR_BROKER == <<"B", "R", "O", "K", "E", "R">>

\* strcpy(g_Topic, "relays") and strcpy(g_Broker, "192.168.0.1")
DefaultTopic == <<"r", "e", "l", "a", "y", "s">>
DefaultBroker == <<"1", "9", "2", ".", "1", "6", "8", ".", "0", ".", "1">>

\* fgets(buffer, BUFFSIZE, fp) on the unread text `rest` (not empty): the number
\* of characters it stores: up to and including the first '\n', at most
\* BUFFSIZE - 1.
FGetsLen(rest) ==
    LET m == IF Len(rest) < BUFFSIZE - 1 THEN Len(rest) ELSE BUFFSIZE - 1
        nls == {j \in 1..m : rest[j] = NL}
    IN  IF nls = {} THEN m ELSE Min(nls)

\* strtok(s, " "): skips leading ' ', returns the token up to the next ' ' (or
\* the end) and keeps the text after that delimiter for the next call.
\* null is TRUE when no token is left (strtok returns NULL).
strtok(s) ==
    LET starts == {j \in 1..Len(s) : s[j] # SP}
    IN  IF starts = {}
        THEN [null |-> TRUE, tok |-> <<>>, rest |-> <<>>]
        ELSE LET b == Min(starts)
                 ends == {j \in b..Len(s) : s[j] = SP}
                 e == IF ends = {} THEN Len(s) + 1 ELSE Min(ends)
             IN  [null |-> FALSE,
                  tok |-> SubSeq(s, b, e - 1),
                  rest |-> SubSeq(s, e + 1, Len(s))]

\* for (i = 0; i < strlen(pchar); i++) pchar[i] = toupper(pchar[i]);
UpperLabel(tok) == [i \in 1..Len(tok) |-> toupper(tok[i])]

\* pos = strlen(buffer) - 1; buffer[pos] = 0;  -- whatever the last character is
StripLast(chunk) == SubSeq(chunk, 1, Len(chunk) - 1)

\* the value appended to the field (strcat) instead of replacing it
StoreValue_Append(old, t) == IF t.null THEN old ELSE old \o t.tok

\* if (pchar != NULL) strcpy(g_Topic, pchar);
StoreValue(old, t) == IF t.null THEN old ELSE t.tok

\* The body of the while loop for one buffer returned by fgets.  cfg is
\* [topic, broker, crashed].  A line of spaces only makes strtok return NULL,
\* and strlen(NULL) is undefined: ub = "fault" is the SIGSEGV of a build where
\* address 0 is unmapped, ub = "reads_zero" the build where it reads as an
\* empty string, so that no label matches.
ProcessLine(chunk, cfg, ub) ==
    LET buffer == StripLast(chunk)
    IN  IF Len(buffer) > 0 /\ buffer[1] # "#"
        THEN LET t1 == strtok(buffer)
             IN  IF t1.null
                 THEN IF ub = "fault" THEN [cfg EXCEPT !.crashed = TRUE] ELSE cfg
                 ELSE LET label == UpperLabel(t1.tok)
                          t2 == strtok(t1.rest)
                      IN  IF label = STR_TOPIC
                          THEN [cfg EXCEPT !.topic = StoreValue(cfg.topic, t2)]
                          ELSE IF label = STR_BROKER
                          THEN [cfg EXCEPT !.broker = StoreValue(cfg.broker, t2)]
                          ELSE cfg
        ELSE cfg

\* while (fgets(buffer, BUFFSIZE, fp) != NULL) { ... }
RECURSIVE ReadLoop(_, _, _)
ReadLoop(rest, cfg, ub) ==
    IF rest = <<>> \/ cfg.crashed
    THEN cfg
    ELSE LET n == FGetsLen(rest)
         IN  ReadLoop(SubSeq(rest, n + 1, Len(rest)),
                      ProcessLine(SubSeq(rest, 1, n), cfg, ub), ub)

\* a failed fopen that stores no defaults
readSettings_NoDefaults(src, cfg, ub) ==
    IF ~src.exists THEN cfg ELSE ReadLoop(src.text, cfg, ub)

\* readSettings(): the configuration it leaves, from the one it finds.  The
\* defaults are stored only when fopen fails; an opened file changes a field
\* only where a TOPIC or BROKER line gives it a value.
readSettings(src, cfg, ub) ==
    IF ~src.exists
    THEN [topic |-> DefaultTopic, broker |-> DefaultBroker, crashed |-> FALSE]
    ELSE ReadLoop(src.text, cfg, ub)

(***************************************************************************)
(* The settings files the model reads.  A file is a sequence of lines,     *)
(* each put together from leading blanks, a first token, a separator, a    *)
(* value and a terminator; readSettings sees only the concatenated text.   *)
(***************************************************************************)
LongLen == 44

LongValue == [i \in 1..LongLen |-> "x"]
OfficeRelays == <<"o", "f", "f", "i", "c", "e", "/", "r", "e", "l", "a", "y", "s">>
TenDot == <<"1", "0", ".", "0", ".", "0", ".", "5">>

TopicLabels == {STR_TOPIC, <<"t", "o", "p", "i", "c">>, <<"T", "o", "p", "i", "c">>}
BrokerLabels == {STR_BROKER, <<"b", "r", "o", "k", "e", "r">>}
OtherLabels == {<<"P", "O", "R", "T">>}
Seps == {<<>>, <<SP>>, <<SP, SP>>, <<TAB>>}
Values == {<<>>, <<"a">>, OfficeRelays, TenDot, LongValue}

MkLine(lead, label, sep, value) ==
    [lead |-> lead, label |-> label, sep |-> sep, value |-> value]

LabelLines ==
    {MkLine(lead, label, sep, value) :
        lead \in {<<>>, <<SP>>},
        label \in TopicLabels \cup BrokerLabels \cup OtherLabels,
        sep \in Seps,
        value \in Values}

\* an empty line, lines of blanks only, comment lines
BlankLine == MkLine(<<>>, <<>>, <<>>, <<>>)
SpaceLines == {MkLine(<<SP>>, <<>>, <<>>, <<>>), MkLine(<<SP, SP>>, <<>>, <<>>, <<>>)}
CommentLines ==
    {MkLine(<<>>, <<"#">>, <<SP>>, <<"a">>),
     MkLine(<<>>, <<"#">> \o STR_TOPIC, <<SP>>, <<"a">>),
     MkLine(<<>>, <<"#">>, <<>>, <<>>)}

Lines == LabelLines \cup {BlankLine} \cup SpaceLines \cup CommentLines

\* the lines a two-line file starts with
FirstLines ==
    {MkLine(<<>>, STR_TOPIC, <<SP>>, OfficeRelays),
     MkLine(<<>>, STR_TOPIC, <<SP>>, <<"a">>),
     MkLine(<<>>, STR_BROKER, <<SP>>, TenDot),
     MkLine(<<>>, STR_BROKER, <<SP>>, LongValue),
     MkLine(<<>>, <<"P", "O", "R", "T">>, <<SP>>, <<"a">>),
     BlankLine}
  \cup CommentLines

LineText(l) == l.lead \o l.label \o l.sep \o l.value

\* A file: its lines, whether the last one ends with '\n' (every other line
\* does), and the text fgets reads.
MkFile(ls, terminated) ==
    [exists |-> TRUE,
     lines |-> ls,
     terminated |-> terminated,
     text |-> IF Len(ls) = 0 THEN <<>>
              ELSE IF Len(ls) = 1
              THEN LineText(ls[1]) \o (IF terminated THEN <<NL>> ELSE <<>>)
              ELSE LineText(ls[1]) \o <<NL>> \o LineText(ls[2])
                     \o (IF terminated THEN <<NL>> ELSE <<>>)]

NoFile == [exists |-> FALSE, lines |-> <<>>, terminated |-> TRUE, text |-> <<>>]

Sources ==
    {NoFile, MkFile(<<>>, TRUE)}
      \cup {MkFile(<<l>>, t) : l \in Lines, t \in BOOLEAN}
      \cup {MkFile(<<l1, l2>>, t) : l1 \in FirstLines, l2 \in Lines, t \in BOOLEAN}

\* the files of the daemon's runs: none, and the scenario of spec section 8
CoreSources ==
    {NoFile,
     MkFile(<<MkLine(<<>>, STR_TOPIC, <<SP>>, OfficeRelays),
              MkLine(<<>>, STR_BROKER, <<SP>>, TenDot)>>, TRUE)}

\* Comment lines as long as the buffer: '#', a run of n characters, then words
\* that read like a settings line.  With n = BUFFSIZE - 2 the first fgets
\* returns exactly the '#' and the run.
CommentRun(n) == <<"#">> \o [i \in 1..n |-> "x"]
RunLengths == {BUFFSIZE - 3, BUFFSIZE - 2}
LongCommentLines ==
    {MkLine(<<>>, CommentRun(n) \o word, <<SP>>, value) :
        n \in RunLengths,
        word \in {<<>>} \cup TopicLabels \cup BrokerLabels \cup OtherLabels,
        value \in {<<"a">>, OfficeRelays, TenDot}}

LongSources ==
    {MkFile(<<l>>, t) : l \in LongCommentLines, t \in BOOLEAN}
      \cup {MkFile(<<l1, l2>>, TRUE) :
               l1 \in LongCommentLines, l2 \in CommentLines \cup {BlankLine}}
      \cup {MkFile(<<l1, l2>>, TRUE) :
               l1 \in CommentLines \cup {BlankLine}, l2 \in LongCommentLines}

(***************************************************************************)
(* Inbound payloads                                                        *)
(***************************************************************************)
MaxMsgs == 3
MaxQos == 2
MaxRuns == 2

Bytes == 0..255

\* the payloads of the daemon's runs: every length from 0 to 3, channel bytes
\* at and around both ends of 1..16, state bytes 0 and not 0
Payloads ==
    {<<>>, <<1>>, <<1, 0>>, <<1, 1>>, <<16, 0>>, <<16, 255>>, <<0, 1>>,
     <<17, 1>>, <<1, 1, 1>>}

\* every payload of one or two bytes, and the others by their length
AllPayloads ==
    {<<>>} \cup {<<c>> : c \in Bytes} \cup {<<c, s>> : c \in Bytes, s \in Bytes}
      \cup {<<c, s, 1>> : c \in {0, 1, 16, 17}, s \in {0, 1}}
      \cup {<<1, 1, 1, 1>>}

\* the granted-QoS lists of a SUBACK: 0, 1, 2 granted, 128 refused
QosValues == {0, 1, 2, 128}
QosLists == UNION {[1..n -> QosValues] : n \in 0..MaxQos}

(***************************************************************************)
(* The events of the event loop, as the callbacks receive them             *)
(***************************************************************************)
NoEvent == [kind |-> "none"]
ConnectEvent(reason_code, subscribed) ==
    [kind |-> "connect", reason_code |-> reason_code, subscribed |-> subscribed]
SubscribeEvent(granted_qos) == [kind |-> "subscribe", granted_qos |-> granted_qos]
MessageEvent(payload) == [kind |-> "message", payload |-> payload]

\* the results main() gets from the libraries
SetupResult(rc) == [kind |-> "wiringPiSetup", rc |-> rc]
NewResult(allocated) == [kind |-> "mosquitto_new", allocated |-> allocated]
ConnectResult(ok) == [kind |-> "mosquitto_connect", ok |-> ok]

\* a call into the mosquitto library
Call(name, arg) == [call |-> name, arg |-> arg]
Disconnect == Call("disconnect", <<>>)

\* mosquitto_disconnect was called: the session ends and
\* mosquitto_loop_forever returns
HasDisconnect(calls) == \E i \in 1..Len(calls) : calls[i] = Disconnect

(***************************************************************************)
(* on_message                                                              *)
(***************************************************************************)
Write(pin, level) == [pin |-> pin, level |-> level]

\* a length check that lets longer payloads through
LengthOk_AtLeastTwo(payload) == Len(payload) >= 2

\* if (msg->payloadlen == 2)
LengthOk(payload) == Len(payload) = 2

\* a range check one past the last relay
RelayInRange_UpTo17(b) == b > 0 /\ b <= 17

\* if (*pin > 0 && *pin <= 16)
RelayInRange(b) == b > 0 /\ b <= 16

\* the relay number used as the pin number
DecrementPin_NoDecrement(buf) == buf

\* *pin -= 1;  on a uint8_t, in the payload buffer itself
DecrementPin(buf) == [buf EXCEPT ![1] = (buf[1] - 1) % 256]

\* the level taken from the state byte without the inversion
LevelOf_NotInverted(b) == IF b = 0 THEN LOW ELSE HIGH

\* value = (*level == 0) ? HIGH : LOW;
LevelOf(b) == IF b = 0 THEN HIGH ELSE LOW

\* The digitalWrite calls on_message issues for a payload: none, or one, to the
\* pin the decremented first byte names, at the level the second byte gives.
MessageWrites(payload) ==
    IF LengthOk(payload) /\ RelayInRange(payload[1])
    THEN LET buf == DecrementPin(payload)
         IN  <<Write(buf[1], LevelOf(buf[2]))>>
    ELSE <<>>

\* digitalWrite(pin, value), one call after the other, on the levels of the
\* 16 relay pins; a write to any other pin number leaves these as they are.
RECURSIVE ApplyWrites(_, _)
ApplyWrites(levels, ws) ==
    IF ws = <<>>
    THEN levels
    ELSE ApplyWrites(IF ws[1].pin \in DOMAIN levels
                     THEN [levels EXCEPT ![ws[1].pin] = ws[1].level]
                     ELSE levels,
                     Tail(ws))

\* a handler that gives up the session on a payload it does not apply
MessageCalls_DisconnectOnDrop(payload) ==
    IF MessageWrites(payload) = <<>> THEN <<Disconnect>> ELSE <<>>

\* The mosquitto calls on_message issues: none, for any payload.
MessageCalls(payload) == <<>>

on_message(payload) ==
    /\ pc = "loop"
    /\ session = "subscribed"
    /\ writes' = MessageWrites(payload)
    /\ pins' = ApplyWrites(pins, writes')
    /\ log' = Append(log, payload)
    /\ mosqCalls' = MessageCalls(payload)
    /\ session' = IF HasDisconnect(mosqCalls') THEN "disconnecting" ELSE session
    /\ event' = MessageEvent(payload)
    /\ UNCHANGED <<pc, source, g_Topic, g_Broker, resolved, pinModes, exitStatus>>

(***************************************************************************)
(* main(): start-up                                                        *)
(***************************************************************************)
Config(t, b) == [topic |-> t, broker |-> b]

\* readSettings(), as main() calls it.  A run that faults leaves the process
\* dead; a run that returns has resolved the configuration.
ReadSettings(ub) ==
    /\ pc = "readSettings"
    /\ LET r == readSettings(source,
                             [topic |-> g_Topic, broker |-> g_Broker, crashed |-> FALSE],
                             ub)
       IN  /\ g_Topic' = r.topic
           /\ g_Broker' = r.broker
           /\ pc' = IF r.crashed THEN "crashed" ELSE "gpioSetup"
           /\ resolved' = IF r.crashed THEN resolved
                          ELSE Append(resolved, Config(r.topic, r.broker))
    /\ writes' = <<>>
    /\ mosqCalls' = <<>>
    /\ event' = NoEvent
    /\ UNCHANGED <<source, pinModes, pins, session, log, exitStatus>>

\* for (i = 0; i < 16; i++) { pinMode(i, OUTPUT); digitalWrite(i, HIGH); }
SetupWrites == [i \in 1..NumPins |-> Write(i - 1, HIGH)]

\* gpioSetup(): rc is what wiringPiSetup() returns; the pins are configured
\* only when it is 0, and main() goes on either way.
gpioSetup(rc) ==
    /\ pc = "gpioSetup"
    /\ IF rc = 0
       THEN /\ pinModes' = [i \in PinIndexes |-> "OUTPUT"]
            /\ writes' = SetupWrites
            /\ pins' = ApplyWrites(pins, writes')
       ELSE /\ writes' = <<>>
            /\ UNCHANGED <<pinModes, pins>>
    /\ pc' = "mosquitto_new"
    /\ mosqCalls' = <<>>
    /\ event' = SetupResult(rc)
    /\ UNCHANGED <<source, g_Topic, g_Broker, resolved, session, log, exitStatus>>

\* mosq = mosquitto_new(NULL, true, NULL); if (mosq == NULL) return 1;
\* then the three callbacks are registered.
\* main going on with the pointer it was given, NULL or not
MosquittoNew_IgnoreNull(allocated) ==
    /\ pc = "mosquitto_new"
    /\ pc' = "connect"
    /\ mosqCalls' = <<Call("connect_callback_set", <<>>),
                      Call("subscribe_callback_set", <<>>),
                      Call("message_callback_set", <<>>)>>
    /\ writes' = <<>>
    /\ event' = NewResult(allocated)
    /\ UNCHANGED <<source, g_Topic, g_Broker, resolved, pinModes, pins, session, log,
                   exitStatus>>

MosquittoNew(allocated) ==
    /\ pc = "mosquitto_new"
    /\ IF allocated
       THEN /\ pc' = "connect"
            /\ mosqCalls' = <<Call("connect_callback_set", <<>>),
                              Call("subscribe_callback_set", <<>>),
                              Call("message_callback_set", <<>>)>>
            /\ UNCHANGED exitStatus
       ELSE /\ pc' = "exit"
            /\ mosqCalls' = <<>>
            /\ exitStatus' = 1
    /\ writes' = <<>>
    /\ event' = NewResult(allocated)
    /\ UNCHANGED <<source, g_Topic, g_Broker, resolved, pinModes, pins, session, log>>

\* rc = mosquitto_connect(mosq, g_Broker, 1883, 60); on failure destroy and
\* return 1, otherwise enter mosquitto_loop_forever.
Connect(ok) ==
    /\ pc = "connect"
    /\ IF ok
       THEN /\ pc' = "loop"
            /\ session' = "awaitConnack"
            /\ mosqCalls' = <<Call("connect", g_Broker)>>
            /\ UNCHANGED exitStatus
       ELSE /\ pc' = "exit"
            /\ mosqCalls' = <<Call("connect", g_Broker), Call("destroy", <<>>)>>
            /\ exitStatus' = 1
            /\ UNCHANGED session
    /\ writes' = <<>>
    /\ event' = ConnectResult(ok)
    /\ UNCHANGED <<source, g_Topic, g_Broker, resolved, pinModes, pins, log>>

(***************************************************************************)
(* The session callbacks                                                   *)
(***************************************************************************)
\* a subscription to the built-in topic instead of the configured one
ConnectCalls_DefaultTopic(reason_code, subscribed) ==
    (IF reason_code # 0 THEN <<Disconnect>> ELSE <<>>)
        \o <<Call("subscribe", DefaultTopic)>>
        \o (IF ~subscribed THEN <<Disconnect>> ELSE <<>>)

\* a refused connection that is not given up
ConnectCalls_NoDisconnectOnFailure(reason_code, subscribed) ==
    <<Call("subscribe", g_Topic)>> \o (IF ~subscribed THEN <<Disconnect>> ELSE <<>>)

\* The mosquitto calls of on_connect: a disconnect when the reason code is not
\* 0, then the subscribe in either case, then a disconnect when the subscribe
\* call did not return MOSQ_ERR_SUCCESS.
ConnectCalls(reason_code, subscribed) ==
    (IF reason_code # 0 THEN <<Disconnect>> ELSE <<>>)
      \o <<Call("subscribe", g_Topic)>>
      \o (IF ~subscribed THEN <<Disconnect>> ELSE <<>>)

on_connect(reason_code, subscribed) ==
    /\ pc = "loop"
    /\ session = "awaitConnack"
    /\ mosqCalls' = ConnectCalls(reason_code, subscribed)
    /\ session' = IF HasDisconnect(mosqCalls') THEN "disconnecting" ELSE "awaitSuback"
    /\ writes' = <<>>
    /\ event' = ConnectEvent(reason_code, subscribed)
    /\ UNCHANGED <<pc, source, g_Topic, g_Broker, resolved, pinModes, pins, log,
                   exitStatus>>

\* if (granted_qos[i] <= 2) have_subscription = true;
\* a subscription counted only when every entry is granted
HaveSubscription_All(granted_qos) == \A i \in 1..Len(granted_qos) : granted_qos[i] <= 2

HaveSubscription(granted_qos) == \E i \in 1..Len(granted_qos) : granted_qos[i] <= 2

SubscribeCalls(granted_qos) ==
    IF HaveSubscription(granted_qos) THEN <<>> ELSE <<Disconnect>>

on_subscribe(granted_qos) ==
    /\ pc = "loop"
    /\ session = "awaitSuback"
    /\ mosqCalls' = SubscribeCalls(granted_qos)
    /\ session' = IF HasDisconnect(mosqCalls') THEN "disconnecting" ELSE "subscribed"
    /\ writes' = <<>>
    /\ event' = SubscribeEvent(granted_qos)
    /\ UNCHANGED <<pc, source, g_Topic, g_Broker, resolved, pinModes, pins, log,
                   exitStatus>>

\* The connection drops and the client resumes it by itself: the next event
\* is a new CONNACK.
Reconnect ==
    /\ pc = "loop"
    /\ session \in {"awaitSuback", "subscribed"}
    /\ session' = "awaitConnack"
    /\ writes' = <<>>
    /\ mosqCalls' = <<>>
    /\ event' = NoEvent
    /\ UNCHANGED <<pc, source, g_Topic, g_Broker, resolved, pinModes, pins, log,
                   exitStatus>>

\* mosquitto_loop_forever returns once mosquitto_disconnect has been called;
\* mosquitto_lib_cleanup(); return 0;
LoopExit ==
    /\ pc = "loop"
    /\ session = "disconnecting"
    /\ pc' = "exit"
    /\ exitStatus' = 0
    /\ writes' = <<>>
    /\ mosqCalls' = <<>>
    /\ event' = NoEvent
    /\ UNCHANGED <<source, g_Topic, g_Broker, resolved, pinModes, pins, session, log>>

(***************************************************************************)
(* Specifications                                                          *)
(***************************************************************************)
\* the process image before main() runs: the statics are zeroed, no pin has
\* been touched
InitWith(srcs) ==
    /\ pc = "readSettings"
    /\ source \in srcs
    /\ g_Topic = <<>>
    /\ g_Broker = <<>>
    /\ resolved = <<>>
    /\ pinModes = [i \in PinIndexes |-> "UNSET"]
    /\ pins = [i \in PinIndexes |-> "NONE"]
    /\ writes = <<>>
    /\ session = "none"
    /\ mosqCalls = <<>>
    /\ log = <<>>
    /\ event = NoEvent
    /\ exitStatus = -1

NullDerefOutcomes == {"fault", "reads_zero"}
SetupCodes == {0, -1}
ReasonCodes == {0, 5}

Startup ==
    \/ \E ub \in NullDerefOutcomes : ReadSettings(ub)
    \/ \E rc \in SetupCodes : gpioSetup(rc)
    \/ \E allocated \in BOOLEAN : MosquittoNew(allocated)
    \/ \E ok \in BOOLEAN : Connect(ok)

Deliver == Len(log) < MaxMsgs /\ \E payload \in Payloads : on_message(payload)

\* the SUBACK of the daemon's one SUBSCRIBE, which names one topic: one entry
OwnQosLists == [1..1 -> QosValues]

Events ==
    \/ \E rc \in ReasonCodes, subscribed \in BOOLEAN : on_connect(rc, subscribed)
    \/ \E granted_qos \in OwnQosLists : on_subscribe(granted_qos)
    \/ Deliver
    \/ Reconnect
    \/ LoopExit

\* the daemon, from start-up to the end of its session
Init == InitWith(CoreSources)
Next == Startup \/ Events
Spec == Init /\ [][Next]_vars

\* readSettings over the settings files above and those with long comments
LineSources == Sources \cup LongSources
InitLines == InitWith(LineSources)
SpecLines == InitLines /\ [][\E ub \in NullDerefOutcomes : ReadSettings(ub)]_vars

\* the session callbacks under every granted-QoS list of up to MaxQos entries,
\* with one valid and one invalid payload as the messages
SessionPayloads == {<<1, 1>>, <<0, 1>>}

DeliverSession ==
    Len(log) < MaxMsgs /\ \E payload \in SessionPayloads : on_message(payload)

SessionEvents ==
    \/ \E rc \in ReasonCodes, subscribed \in BOOLEAN : on_connect(rc, subscribed)
    \/ \E granted_qos \in QosLists : on_subscribe(granted_qos)
    \/ DeliverSession
    \/ Reconnect
    \/ LoopExit

SpecSession == Init /\ [][Startup \/ SessionEvents]_vars

\* start-up over every settings file of the model, up to the connect call
InitSettings == InitWith(Sources)
SpecSettings == InitSettings /\ [][Startup]_vars

\* readSettings() called again on the same file, as a second resolution
ReadSettingsAgain(ub) ==
    /\ pc = "gpioSetup"
    /\ Len(resolved) < MaxRuns
    /\ LET r == readSettings(source,
                             [topic |-> g_Topic, broker |-> g_Broker, crashed |-> FALSE],
                             ub)
       IN  /\ g_Topic' = r.topic
           /\ g_Broker' = r.broker
           /\ pc' = IF r.crashed THEN "crashed" ELSE pc
           /\ resolved' = IF r.crashed THEN resolved
                          ELSE Append(resolved, Config(r.topic, r.broker))
    /\ writes' = <<>>
    /\ mosqCalls' = <<>>
    /\ event' = NoEvent
    /\ UNCHANGED <<source, pinModes, pins, session, log, exitStatus>>

NextTwice ==
    \/ \E ub \in NullDerefOutcomes : ReadSettings(ub)
    \/ \E ub \in NullDerefOutcomes : ReadSettingsAgain(ub)

\* readSettings run up to MaxRuns times on every settings file of the model
SpecTwice == InitSettings /\ [][NextTwice]_vars

\* The daemon subscribed after a start-up without settings file and with the
\* pins set up; one message of PrePayloads, then one message of any bytes.
InitDecode ==
    /\ pc = "loop"
    /\ source = NoFile
    /\ g_Topic = DefaultTopic
    /\ g_Broker = DefaultBroker
    /\ resolved = <<Config(DefaultTopic, DefaultBroker)>>
    /\ pinModes = [i \in PinIndexes |-> "OUTPUT"]
    /\ pins = [i \in PinIndexes |-> HIGH]
    /\ writes = <<>>
    /\ session = "subscribed"
    /\ mosqCalls = <<>>
    /\ log = <<>>
    /\ event = NoEvent
    /\ exitStatus = -1

PrePayloads == {<<>>, <<1, 1>>, <<16, 255>>}

DeliverFirst == log = <<>> /\ \E payload \in PrePayloads : on_message(payload)
DeliverAny == Len(log) = 1 /\ \E payload \in AllPayloads : on_message(payload)

SpecDecode == InitDecode /\ [][DeliverFirst \/ DeliverAny]_vars

(***************************************************************************)
(* Claims                                                                  *)
(***************************************************************************)
\* the payload the last on_message received, in the state after it
LastPayload == log[Len(log)]

\* a payload of exactly 2 bytes whose first byte is a channel, 1..16
ValidPayload(p) == Len(p) = 2 /\ p[1] >= 1 /\ p[1] <= 16

\* the level a state byte asks for: LOW for on (not 0), HIGH for off (0)
AskedLevel(s) == IF s # 0 THEN "LOW" ELSE "HIGH"

\* C1: a 2-byte payload [c, s] with c in 1..16 makes on_message issue exactly
\* one pin write, to pin c - 1, LOW when s # 0 and HIGH when s = 0, and the
\* other 15 pins keep their levels.
C1_ValidMessageWritesOnePin ==
    [][(Len(log') = Len(log) + 1 /\ ValidPayload(log'[Len(log')])) =>
           LET c == log'[Len(log')][1]
               s == log'[Len(log')][2]
           IN  /\ writes' = <<[pin |-> c - 1, level |-> AskedLevel(s)]>>
               /\ pins'[c - 1] = AskedLevel(s)
               /\ \A i \in 0..15 : i # c - 1 => pins'[i] = pins[i]]_vars

\* channel 16 switched on by a state byte of 255, after channel 1 was switched on
C1_Witness ==
    /\ Len(log) = 2
    /\ log[1] = <<1, 1>>
    /\ LastPayload = <<16, 255>>
    /\ writes = <<[pin |-> 15, level |-> "LOW"]>>
    /\ pins[15] = "LOW"
    /\ pins[0] = "LOW"

\* C2: a payload whose length is not 2 makes on_message issue no pin write and
\* leaves all 16 pin levels as they were.
C2_WrongLengthWritesNothing ==
    [][(Len(log') = Len(log) + 1 /\ Len(log'[Len(log')]) # 2) =>
           /\ writes' = <<>>
           /\ pins' = pins]_vars

\* three bytes that start like a valid command, with relay 1 already on
C2_Witness ==
    /\ Len(log) = 2
    /\ log[1] = <<1, 1>>
    /\ LastPayload = <<1, 0, 1>>
    /\ writes = <<>>
    /\ pins[0] = "LOW"

\* C3: a 2-byte payload whose first byte is 0 or 17..255 is dropped: no pin
\* write, all 16 pin levels as they were.
C3_ChannelOutOfRangeDropped ==
    [][(/\ Len(log') = Len(log) + 1
        /\ Len(log'[Len(log')]) = 2
        /\ (log'[Len(log')][1] = 0 \/ log'[Len(log')][1] > 16)) =>
           /\ writes' = <<>>
           /\ pins' = pins]_vars

\* channel byte 255 with a state byte that would switch on
C3_Witness ==
    /\ Len(log) = 2
    /\ log[1] = <<16, 255>>
    /\ LastPayload = <<255, 1>>
    /\ writes = <<>>
    /\ pins[15] = "LOW"

\* the messages of the log that are valid commands for channel ch
CommandsFor(ch) == {k \in 1..Len(log) : ValidPayload(log[k]) /\ log[k][1] = ch}

\* the level the log dictates for channel ch: that of its most recent valid
\* command, HIGH when there is none
DictatedLevel(ch) ==
    IF CommandsFor(ch) = {}
    THEN "HIGH"
    ELSE LET m == CHOOSE k \in CommandsFor(ch) : \A j \in CommandsFor(ch) : j <= k
         IN  AskedLevel(log[m][2])

SetupSucceeded == \A i \in 0..15 : pinModes[i] = "OUTPUT"

\* C4: after a successful GPIO setup and any sequence of messages, every pin i
\* is at the level of the most recent valid message for channel i + 1, or HIGH
\* if there was none; invalid messages change nothing.
C4_ErrorsContained ==
    SetupSucceeded => \A i \in 0..15 : pins[i] = DictatedLevel(i + 1)

\* on, a message for a channel that does not exist, then off again
C4_Witness ==
    /\ SetupSucceeded
    /\ log = <<<<1, 1>>, <<17, 1>>, <<1, 0>>>>
    /\ pins[0] = "HIGH"

\* C5: whenever the transport connect is issued, all 16 pins have been
\* configured as outputs and written HIGH.
C5_PinsHighBeforeConnect ==
    (mosqCalls # <<>> /\ mosqCalls[1].call = "connect") =>
        \A i \in 0..15 : pinModes[i] = "OUTPUT" /\ pins[i] = "HIGH"

\* the built-in defaults, as the specification spells them
SpecTopic == <<"r", "e", "l", "a", "y", "s">>
SpecBroker == <<"1", "9", "2", ".", "1", "6", "8", ".", "0", ".", "1">>

\* readSettings has returned
AfterSettings == pc \in {"gpioSetup", "mosquitto_new", "connect", "loop", "exit"}

\* no line of the file pairs one of the labels with a value
NoValueFor(labels) ==
    \A k \in 1..Len(source.lines) :
        source.lines[k].label \notin labels \/ source.lines[k].value = <<>>

\* C6: an opened settings file that gives no value for a label leaves that
\* field at its default, "relays" or "192.168.0.1", once readSettings returned
\* (and so when the connect is issued).
C6_MissingLabelDefaults ==
    (source.exists /\ AfterSettings) =>
        /\ NoValueFor(TopicLabels) => g_Topic = SpecTopic
        /\ NoValueFor(BrokerLabels) => g_Broker = SpecBroker

\* C7: when the settings file cannot be opened, readSettings returns with
\* topic "relays" and broker "192.168.0.1", and start-up goes on: the process
\* does not die in readSettings.
C7_MissingFileDefaults ==
    ~source.exists =>
        /\ pc # "crashed"
        /\ pc # "readSettings" =>
              /\ g_Topic = SpecTopic
              /\ g_Broker = SpecBroker
              /\ resolved = <<[topic |-> SpecTopic, broker |-> SpecBroker]>>

\* no settings file, and the connect issued to the default broker
C7_Witness ==
    /\ ~source.exists
    /\ pc = "loop"
    /\ mosqCalls = <<[call |-> "connect", arg |-> SpecBroker]>>
    /\ g_Topic = SpecTopic
    /\ SetupSucceeded

\* a line that is a label, a run of blanks and a value, shorter than the
\* read buffer
PlainLine(l, labels) ==
    /\ l.lead = <<>>
    /\ l.label \in labels
    /\ l.sep \in {<<" ">>, <<" ", " ">>}
    /\ l.value \in {<<"a">>, OfficeRelays, TenDot}

\* the value the file's last line naming one of the labels gives, when that
\* line is a plain one: the field must hold exactly it
ValueKept(labels, field) ==
    LET K == {k \in 1..Len(source.lines) : source.lines[k].label \in labels}
    IN  K # {} =>
            LET m == CHOOSE k \in K : \A j \in K : j <= k
            IN  PlainLine(source.lines[m], labels) => field = source.lines[m].value

\* C8: a line "LABEL <blanks> value", the label TOPIC or BROKER in any case,
\* sets the field to exactly that value, also when it is the last line of the
\* file and has no line terminator.  (Stated for blanks and for lines shorter
\* than the buffer, where the reading of "whitespace" and of long lines plays
\* no part.)
C8_ValueStoredExactly ==
    (source.exists /\ AfterSettings) =>
        /\ ValueKept(TopicLabels, g_Topic)
        /\ ValueKept(BrokerLabels, g_Broker)

\* C9: for every content of an opened settings file readSettings runs to
\* completion: the process never dies in it.
C9_ResolutionNeverFails == source.exists => pc # "crashed"

\* C10: readSettings run again on the same unchanged file, present or absent,
\* leaves topic and broker as the first run left them.
C10_Idempotent == \A i \in 1..Len(resolved) : resolved[i] = resolved[1]

\* two completed runs on a file that sets the topic and not the broker
C10_Witness ==
    /\ Len(resolved) = 2
    /\ source.exists
    /\ resolved[1].topic = OfficeRelays
    /\ resolved[2].topic = OfficeRelays
    /\ resolved[2].broker = <<>>

\* the topic and the broker resolved at start-up
ResolvedTopic == resolved[1].topic
ResolvedBroker == resolved[1].broker

\* the positions of the calls of one kind among the most recent step's calls
CallsOf(name) == {i \in 1..Len(mosqCalls) : mosqCalls[i].call = name}

\* C11: on every connect-result event, also after a reconnection: on success
\* (reason code 0) a subscribe for the configured topic is issued, and the
\* session is disconnected if that request is not accepted; on failure (reason
\* code not 0) a disconnect is requested.
C11_ConnectResultHandled ==
    event.kind = "connect" =>
        /\ event.reason_code = 0 =>
              /\ \E i \in CallsOf("subscribe") : mosqCalls[i].arg = ResolvedTopic
              /\ ~event.subscribed =>
                    /\ \E i \in CallsOf("subscribe"), j \in CallsOf("disconnect") : i < j
                    /\ session = "disconnecting"
        /\ event.reason_code # 0 =>
              /\ CallsOf("disconnect") # {}
              /\ session = "disconnecting"

\* a CONNACK of success after a reconnection that followed two messages; the
\* topic is the one of the settings file
C11_Witness ==
    /\ event.kind = "connect"
    /\ event.reason_code = 0
    /\ event.subscribed
    /\ Len(log) = 2
    /\ mosqCalls = <<[call |-> "subscribe", arg |-> OfficeRelays]>>
    /\ session = "awaitSuback"

\* C12: on every subscribe-result event a disconnect is requested exactly when
\* no entry of the granted list is a granted level (0, 1 or 2), the empty list
\* included; if at least one entry is granted the connection is left as it is.
C12_DisconnectIffNothingGranted ==
    event.kind = "subscribe" =>
        LET granted == \E i \in 1..Len(event.granted_qos) :
                           event.granted_qos[i] \in {0, 1, 2}
        IN  /\ CallsOf("disconnect") # {} <=> ~granted
            /\ session = "disconnecting" <=> ~granted
            /\ granted => mosqCalls = <<>> /\ session = "subscribed"

\* a SUBACK whose first entry is refused and whose second is granted
C12_Witness ==
    /\ event.kind = "subscribe"
    /\ event.granted_qos = <<128, 1>>
    /\ session = "subscribed"
    /\ mosqCalls = <<>>

\* a SUBACK without entries
C12_EmptyList ==
    /\ event.kind = "subscribe"
    /\ event.granted_qos = <<>>
    /\ session = "disconnecting"

\* C13: no inbound message, valid or invalid, ends the session or the process:
\* handling a message requests no disconnect and does not exit, and the daemon
\* still accepts the next event afterwards.  A disconnect is requested only by
\* a failed connect result, a subscribe request that is not accepted, or a
\* subscribe result in which every entry is rejected; the event loop is left
\* only after such a request.
C13_MessagesNeverTerminate ==
    [][ /\ event'.kind = "message" =>
              /\ mosqCalls' = <<>>
              /\ session' = "subscribed"
              /\ pc' = "loop"
              /\ exitStatus' = -1
        /\ (\E i \in 1..Len(mosqCalls') : mosqCalls'[i].call = "disconnect") =>
              \/ event'.kind = "connect" /\ event'.reason_code # 0
              \/ event'.kind = "connect" /\ ~event'.subscribed
              \/ /\ event'.kind = "subscribe"
                 /\ \A i \in 1..Len(event'.granted_qos) :
                        event'.granted_qos[i] \notin {0, 1, 2}
        /\ session' = "disconnecting" /\ session # "disconnecting" =>
              \E i \in 1..Len(mosqCalls') : mosqCalls'[i].call = "disconnect"
        /\ pc = "loop" /\ pc' = "exit" => session = "disconnecting"
      ]_vars

\* a message of three bytes was dropped, after a valid one switched relay 1,
\* and the session is still subscribed
C13_Witness ==
    /\ event.kind = "message"
    /\ event.payload = <<1, 1, 1>>
    /\ log = << <<1, 1>>, <<1, 1, 1>> >>
    /\ writes = <<>>
    /\ session = "subscribed"
    /\ pc = "loop"

\* C14: when the client instance cannot be allocated the process exits at once
\* with a non-zero status: no callback is registered, no connect is attempted
\* and the event loop is not entered.  When the initial connect call fails the
\* process exits with a non-zero status without entering the event loop.  In
\* both cases nothing runs afterwards.
C14_FatalStartupFailures ==
    /\ event.kind = "mosquitto_new" /\ ~event.allocated =>
          /\ pc = "exit"
          /\ exitStatus \notin {0, -1}
          /\ mosqCalls = <<>>
          /\ session = "none"
          /\ ~ENABLED Next
    /\ event.kind = "mosquitto_connect" /\ ~event.ok =>
          /\ pc = "exit"
          /\ exitStatus \notin {0, -1}
          /\ session = "none"
          /\ ~ENABLED Next
    /\ session # "none" =>
          /\ event.kind \notin {"mosquitto_new", "wiringPiSetup"}
          /\ exitStatus \in {0, -1}

\* the allocation failed and the process has ended with status 1
C14_Witness ==
    /\ event.kind = "mosquitto_new"
    /\ ~event.allocated
    /\ pc = "exit"
    /\ exitStatus = 1
    /\ mosqCalls = <<>>

\* the initial connect failed and the process has ended with status 1
C14_ConnectFailed ==
    /\ event.kind = "mosquitto_connect"
    /\ ~event.ok
    /\ pc = "exit"
    /\ exitStatus = 1

\* C15: once readSettings has returned, no later step or event (GPIO setup,
\* client creation, connect, connect result, subscribe result, message with
\* any payload, reconnection) changes the broker address or the topic name,
\* and every subscribe request names the topic resolved at start-up.
C15_ConfigImmutable ==
    [][ pc # "readSettings" =>
          /\ g_Topic' = g_Topic
          /\ g_Broker' = g_Broker
          /\ g_Topic' = resolved[1].topic
          /\ g_Broker' = resolved[1].broker
          /\ resolved' = resolved
          /\ \A i \in 1..Len(mosqCalls') :
                mosqCalls'[i].call = "subscribe" =>
                    mosqCalls'[i].arg = resolved[1].topic
      ]_vars

\* the topic of the settings file is still in place, and is the one
\* subscribed to, on the CONNACK that follows three messages and a
\* reconnection
C15_Witness ==
    /\ event.kind = "connect"
    /\ Len(log) = 3
    /\ g_Topic = OfficeRelays
    /\ g_Broker = TenDot
    /\ resolved[1] = [topic |-> OfficeRelays, broker |-> TenDot]
    /\ \E i \in 1..Len(mosqCalls) : mosqCalls[i] = [call |-> "subscribe", arg |-> OfficeRelays]

\* a line the settings format ignores: a comment (first character '#', of any
\* length and content), a blank line, or a line whose label is not TOPIC or
\* BROKER in any case
IgnoredLine(l) ==
    \/ LineText(l) = <<>>
    \/ LineText(l)[1] = "#"
    \/ l.label = <<>>
    \/ l.label = <<"P", "O", "R", "T">>

\* C16: while the settings file is read, every comment line, every blank line
\* and every line with a label other than TOPIC and BROKER leaves the topic
\* and the broker as they were: a file of such lines only leaves both fields
\* as they were before readSettings, which is empty.
C16_IgnoredLinesChangeNothing ==
    (source.exists /\ \A k \in 1..Len(source.lines) : IgnoredLine(source.lines[k])) =>
        /\ g_Topic = <<>>
        /\ g_Broker = <<>>

\* the same over the files whose lines are all shorter than the buffer
C16_ShortLinesOnly ==
    source \in Sources => C16_IgnoredLinesChangeNothing

\* a file of ignored lines has been read
C16_IgnoredFileRead ==
    /\ source.exists
    /\ Len(source.lines) = 2
    /\ \A k \in 1..Len(source.lines) : IgnoredLine(source.lines[k])
    /\ pc = "gpioSetup"

\* C17: a subscribe request is issued only in answer to a successful connect
\* result: none while a connect result with a non-zero reason code is
\* handled, none after a disconnect was requested in the same event, and none
\* in any other step.
C17_SubscribeOnlyOnSuccess ==
    \A i \in 1..Len(mosqCalls) :
        mosqCalls[i].call = "subscribe" =>
            /\ event.kind = "connect"
            /\ event.reason_code = 0
            /\ \A j \in 1..(i - 1) : mosqCalls[j].call # "disconnect"

\* the part of C17 that does not depend on the reason code: subscribe
\* requests come from connect results only
C17_SubscribeOnlyInOnConnect ==
    \A i \in 1..Len(mosqCalls) :
        mosqCalls[i].call = "subscribe" => event.kind = "connect"

\* a refused connection has been handled
C17_RefusedConnectHandled ==
    /\ event.kind = "connect"
    /\ event.reason_code = 5
    /\ session = "disconnecting"

\* C18: after start-up, message handling is the only source of pin writes: a
\* connect result or a subscribe result (with any reason code or granted
\* list), like every other step that is not a message, issues no pin write
\* and leaves the 16 pin levels as they were; and every pin write of any step
\* targets an index in 0..15 with level HIGH or LOW.
C18_OnlyMessagesWritePins ==
    [][ /\ pc = "loop" /\ event'.kind # "message" =>
              /\ writes' = <<>>
              /\ pins' = pins
              /\ pinModes' = pinModes
        /\ event'.kind \in {"connect", "subscribe"} => pc = "loop"
        /\ \A i \in 1..Len(writes') :
              /\ writes'[i].pin \in 0..15
              /\ writes'[i].level \in {"HIGH", "LOW"}
        /\ DOMAIN pins' = 0..15
      ]_vars

\* a SUBACK handled after a reconnection, with relay 1 still switched on by
\* an earlier message
C18_Witness ==
    /\ event.kind = "subscribe"
    /\ log = << <<1, 1>> >>
    /\ pins[0] = "LOW"
    /\ \A i \in 1..15 : pins[i] = "HIGH"
    /\ writes = <<>>

====
